---- MODULE Spec2Model ----
(***************************************************************************)
(* A model of the crontab parser of benstreb/crontab-parser: the element   *)
(* parser (Range.__init__ / parse_range), the Range and Set "next value"   *)
(* operations and the next-occurrence engine Job.next_value.               *)
(*                                                                         *)
(* Text is modelled as a sequence of one-character strings, so that        *)
(* split, replace, int() and format() are computed, not assumed.           *)
(* The alphabet of the model is the digits and the characters              *)
(* "*", "-", "/", ",", "+", " " and letters of commands.                   *)
(***************************************************************************)
EXTENDS Integers, Sequences, FiniteSets, TLC

VARIABLES
    arg,      \* the arguments of the pure function under check
    ret,      \* what the called functions returned for arg
    job,      \* the Job whose next run is computed
    now,      \* the reference timestamp handed to Job.next_value
    pc,       \* position of the call of Job.next_value
    loop,     \* locals of find_dom_month_year: pass counter i, dom, month, year
    result    \* outcome of Job.next_value

vars == <<arg, ret, job, now, pc, loop, result>>

None == [kind |-> "None"]

-----------------------------------------------------------------------------
(* Text: str.split, str.replace, int(), format()                           *)

Digits == <<"0", "1", "2", "3", "4", "5", "6", "7", "8", "9">>

IsDigit(c) == \E k \in 1..10 : Digits[k] = c

DigitVal(c) == (CHOOSE k \in 1..10 : Digits[k] = c) - 1

\* str.split(sep) for a one-character separator: every occurrence of sep
\* ends a piece; the text without sep is one piece, possibly empty.
RECURSIVE SplitFrom(_, _, _, _)
SplitFrom(s, sep, k, piece) ==
    IF k > Len(s) THEN <<piece>>
    ELSE IF s[k] = sep THEN <<piece>> \o SplitFrom(s, sep, k + 1, <<>>)
    ELSE SplitFrom(s, sep, k + 1, Append(piece, s[k]))

Split(s, sep) == SplitFrom(s, sep, 1, <<>>)

\* str.replace(old, new) for a one-character old.
RECURSIVE Replace(_, _, _)
Replace(s, old, new) ==
    IF s = <<>> THEN <<>>
    ELSE (IF Head(s) = old THEN new ELSE <<Head(s)>>) \o Replace(Tail(s), old, new)

\* "{}".format(n) for an integer n.
RECURSIVE FormatNat(_)
FormatNat(n) ==
    IF n < 10 THEN <<Digits[n + 1]>>
    ELSE Append(FormatNat(n \div 10), Digits[(n % 10) + 1])

FormatInt(n) == IF n < 0 THEN <<"-">> \o FormatNat(-n) ELSE FormatNat(n)

AllDigits(s) == \A k \in 1..Len(s) : IsDigit(s[k])

RECURSIVE NatOf(_, _)
NatOf(s, acc) ==
    IF s = <<>> THEN acc ELSE NatOf(Tail(s), acc * 10 + DigitVal(Head(s)))

\* int(text): an optional sign followed by at least one digit; anything else
\* over the model's alphabet is a ValueError.
IntOk(s) ==
    IF s # <<>> /\ Head(s) \in {"-", "+"}
    THEN Len(s) > 1 /\ AllDigits(Tail(s))
    ELSE Len(s) > 0 /\ AllDigits(s)

IntOf(s) ==
    IF Head(s) = "-" THEN -NatOf(Tail(s), 0)
    ELSE IF Head(s) = "+" THEN NatOf(Tail(s), 0)
    ELSE NatOf(s, 0)

-----------------------------------------------------------------------------
(* Job.STAR_RANGES                                                         *)

MINUTE_RANGE == <<0, 59>>
HOUR_RANGE == <<0, 23>>
DOM_RANGE == <<1, 31>>
MONTH_RANGE == <<1, 12>>
DOW_RANGE == <<1, 7>>
STAR_RANGES == <<MINUTE_RANGE, HOUR_RANGE, DOM_RANGE, MONTH_RANGE, DOW_RANGE>>

-----------------------------------------------------------------------------
(* Range                                                                   *)

InvalidField(text) ==
    [kind |-> "CronSyntaxError", msg |-> "Invalid Field", text |-> text]

ValueError == [kind |-> "ValueError"]

Range(min, max, step) == [kind |-> "Range", min |-> min, max |-> max, step |-> step]

\* The min-max part of Range.__init__ (the second try block).
RawRange(base, step, text) ==
    LET raw_range == Split(base, "-") IN
    IF Len(raw_range) = 1 THEN
        IF IntOk(raw_range[1])
        THEN Range(IntOf(raw_range[1]), IntOf(raw_range[1]), step)
        ELSE InvalidField(text)
    ELSE IF Len(raw_range) = 2 THEN
        IF ~IntOk(raw_range[1]) \/ ~IntOk(raw_range[2]) THEN InvalidField(text)
        ELSE IF IntOf(raw_range[1]) > IntOf(raw_range[2]) THEN InvalidField(text)
        ELSE Range(IntOf(raw_range[1]), IntOf(raw_range[2]), step)
    ELSE InvalidField(text)

\* Range.__init__ with "*" always expanded to the minute bounds.
Range_init_StarMinute(range, star_range) ==
    LET range_step == Split(Replace(range, "*", <<"0", "-", "5", "9">>), "/")
    IN
    IF Len(range_step) = 1 THEN RawRange(range_step[1], 1, range)
    ELSE IF Len(range_step) = 2 THEN
        IF ~IntOk(range_step[2]) THEN ValueError
        ELSE IF IntOf(range_step[2]) < 0 THEN InvalidField(range)
        ELSE RawRange(range_step[1], IntOf(range_step[2]), range)
    ELSE InvalidField(range)

\* Range.__init__(range, star_range). "except IndexError or ValueError"
\* catches IndexError only, so the ValueError of int() on the step text
\* leaves the constructor as it is.
Range_init(range, star_range) ==
    LET star == FormatInt(star_range[1]) \o <<"-">> \o FormatInt(star_range[2])
        range_step == Split(Replace(range, "*", star), "/")
    IN
    IF Len(range_step) = 1 THEN RawRange(range_step[1], 1, range)
    ELSE IF Len(range_step) = 2 THEN
        IF ~IntOk(range_step[2]) THEN ValueError
        ELSE IF IntOf(range_step[2]) < 0 THEN InvalidField(range)
        ELSE RawRange(range_step[1], IntOf(range_step[2]), range)
    ELSE InvalidField(range)

\* parse_range of parser.py is Range.__init__ with locals for attributes.
parse_range(range_step, star_range) == Range_init(range_step, star_range)

\* Range.__repr__ with max and step in each other's place.
Range_repr_Swapped(r) ==
    FormatInt(r.min) \o <<"-">> \o FormatInt(r.step) \o <<"/">> \o FormatInt(r.max)

\* Range.__repr__: '{}-{}/{}'.format(min, max, step)
Range_repr(r) ==
    FormatInt(r.min) \o <<"-">> \o FormatInt(r.max) \o <<"/">> \o FormatInt(r.step)

\* Range.__eq__
Range_eq(r, other) ==
    r.min = other.min /\ r.max = other.max /\ r.step = other.step

B2I(b) == IF b THEN 1 ELSE 0

\* math.ceil(a / b) for b > 0
Ceil(a, b) == -((-a) \div b)

\* Range.next_value with the quotient rounded down instead of up.
Range_next_value_Floor(r, current, carry) ==
    LET distance == (current + B2I(carry) - r.min) \div r.step
        next == r.min + r.step * distance
    IN
    IF current + B2I(carry) <= r.min THEN <<FALSE, r.min>>
    ELSE IF next > r.max THEN <<TRUE, r.min>>
    ELSE <<FALSE, next>>

\* Range.next_value(current, carry) -> (carry_out, value)
Range_next_value(r, current, carry) ==
    LET distance == Ceil(current + B2I(carry) - r.min, r.step)
        next == r.min + r.step * distance
    IN
    IF current + B2I(carry) <= r.min THEN <<FALSE, r.min>>
    ELSE IF next > r.max THEN <<TRUE, r.min>>
    ELSE <<FALSE, next>>

\* Range.validate(current, carry): the linear scan over
\* range(min, max + 1, step).
RECURSIVE Scan(_, _, _)
Scan(r, i, target) ==
    IF i >= r.max + 1 THEN <<TRUE, r.min>>
    ELSE IF i >= target THEN <<FALSE, i>>
    ELSE Scan(r, i + r.step, target)

Range_validate(r, current, carry) ==
    IF current + B2I(carry) < r.min THEN <<FALSE, r.min>>
    ELSE Scan(r, r.min, current + B2I(carry))

-----------------------------------------------------------------------------
(* Set                                                                     *)

\* Set.__init__(field, star_range): the ranges of field.split(","), or the
\* first error raised while building them.
RECURSIVE RangesOf(_, _, _)
RangesOf(parts, star_range, acc) ==
    IF parts = <<>> THEN [kind |-> "Set", ranges |-> acc]
    ELSE LET r == Range_init(Head(parts), star_range) IN
         IF r.kind # "Range" THEN r
         ELSE RangesOf(Tail(parts), star_range, Append(acc, r))

Set_init(field, star_range) == RangesOf(Split(field, ","), star_range, <<>>)

\* The plain numeric minimum: the value compared before the carry.
TupleLess_ValueFirst(a, b) ==
    \/ a[2] < b[2]
    \/ a[2] = b[2] /\ B2I(a[1]) < B2I(b[1])

\* Python's order of (bool, int) tuples: False before True, then the value.
TupleLess(a, b) ==
    \/ B2I(a[1]) < B2I(b[1])
    \/ a[1] = b[1] /\ a[2] < b[2]

\* min() over a generator: keep the first item, replace it by a smaller one.
RECURSIVE MinOf(_, _)
MinOf(items, best) ==
    IF items = <<>> THEN best
    ELSE MinOf(Tail(items), IF TupleLess(Head(items), best) THEN Head(items) ELSE best)

\* Set.next_value(current, carry)
Set_next_value(s, current, carry) ==
    LET items == [k \in 1..Len(s.ranges) |->
                    Range_next_value(s.ranges[k], current, carry)]
    IN MinOf(Tail(items), Head(items))

-----------------------------------------------------------------------------
(* datetime: the calendar operations the engine uses                       *)

MINYEAR == 1
MAXYEAR == 9999

IsLeap(y) == y % 4 = 0 /\ (y % 100 # 0 \/ y % 400 = 0)

DaysInMonth(y, m) ==
    IF m = 2 THEN (IF IsLeap(y) THEN 29 ELSE 28)
    ELSE IF m \in {4, 6, 9, 11} THEN 30 ELSE 31

\* datetime(year, month, day, ...) raises ValueError unless this holds.
ValidDate(y, m, d) ==
    /\ y \in MINYEAR..MAXYEAR
    /\ m \in 1..12
    /\ d >= 1
    /\ d <= DaysInMonth(y, m)

RECURSIVE DaysBeforeMonth(_, _)
DaysBeforeMonth(y, m) ==
    IF m = 1 THEN 0 ELSE DaysBeforeMonth(y, m - 1) + DaysInMonth(y, m - 1)

\* date.toordinal(): 1 for 0001-01-01
Ordinal(y, m, d) ==
    LET p == y - 1 IN
    p * 365 + (p \div 4) - (p \div 100) + (p \div 400) + DaysBeforeMonth(y, m) + d

\* datetime.isoweekday(): Monday is 1, Sunday is 7
isoweekday(dt) == ((Ordinal(dt.year, dt.month, dt.day) + 6) % 7) + 1

NextDay(dt) ==
    IF dt.day < DaysInMonth(dt.year, dt.month) THEN [dt EXCEPT !.day = dt.day + 1]
    ELSE IF dt.month < 12 THEN [dt EXCEPT !.day = 1, !.month = dt.month + 1]
    ELSE [dt EXCEPT !.day = 1, !.month = 1, !.year = dt.year + 1]

PrevDay(dt) ==
    IF dt.day > 1 THEN [dt EXCEPT !.day = dt.day - 1]
    ELSE IF dt.month > 1
    THEN [dt EXCEPT !.day = DaysInMonth(dt.year, dt.month - 1), !.month = dt.month - 1]
    ELSE [dt EXCEPT !.day = 31, !.month = 12, !.year = dt.year - 1]

\* dt + timedelta(days=n)
RECURSIVE AddDays(_, _)
AddDays(dt, n) ==
    IF n = 0 THEN dt
    ELSE IF n > 0 THEN AddDays(NextDay(dt), n - 1)
    ELSE AddDays(PrevDay(dt), n + 1)

DtTuple(dt) ==
    <<dt.year, dt.month, dt.day, dt.hour, dt.minute, dt.second, dt.microsecond>>

RECURSIVE SeqLess(_, _)
SeqLess(a, b) ==
    IF a = <<>> THEN FALSE
    ELSE IF Head(a) # Head(b) THEN Head(a) < Head(b)
    ELSE SeqLess(Tail(a), Tail(b))

\* datetime.__lt__
DtLess(a, b) == SeqLess(DtTuple(a), DtTuple(b))

\* min(a, b) of two datetimes: b only if it is smaller
DtMin(a, b) == IF DtLess(b, a) THEN b ELSE a

-----------------------------------------------------------------------------
(* Job                                                                     *)

IsSpace(c) == c \in {" ", "\t", "\n", "\r"}

RECURSIVE SkipSpace(_, _)
SkipSpace(s, k) ==
    IF k <= Len(s) /\ IsSpace(s[k]) THEN SkipSpace(s, k + 1) ELSE k

RECURSIVE WordEnd(_, _)
WordEnd(s, k) ==
    IF k <= Len(s) /\ ~IsSpace(s[k]) THEN WordEnd(s, k + 1) ELSE k

\* str.split(maxsplit=n): words separated by runs of whitespace; after n
\* words the rest of the text, from its first non-blank character on, is
\* the last piece.
RECURSIVE SplitWords(_, _, _, _)
SplitWords(s, k, maxsplit, acc) ==
    LET b == SkipSpace(s, k) IN
    IF b > Len(s) THEN acc
    ELSE IF Len(acc) = maxsplit THEN Append(acc, SubSeq(s, b, Len(s)))
    ELSE SplitWords(s, WordEnd(s, b), maxsplit, Append(acc, SubSeq(s, b, WordEnd(s, b) - 1)))

InvalidJob(text) ==
    [kind |-> "CronSyntaxError", msg |-> "Invalid job", text |-> text]

IndexError == [kind |-> "IndexError"]

\* tuple(Set(f, r) for f, r in zip(line, Job.STAR_RANGES)): the Sets of
\* the first five words, or the first error raised by one of them.
RECURSIVE SetsOf(_, _, _)
SetsOf(line, k, acc) ==
    IF k > 5 \/ k > Len(line) THEN [kind |-> "Sets", sets |-> acc]
    ELSE LET s == Set_init(line[k], STAR_RANGES[k]) IN
         IF s.kind # "Set" THEN s
         ELSE SetsOf(line, k + 1, Append(acc, s))

\* Job.__init__ with the flags taken from the parsed values, not the text.
Job_init_ByValue(raw_line) ==
    LET line == SplitWords(raw_line, 1, 5, <<>>)
        times == SetsOf(line, 1, <<>>)
    IN
    IF times.kind = "CronSyntaxError" THEN times
    ELSE IF times.kind = "ValueError" THEN InvalidJob(raw_line)
    ELSE IF Len(times.sets) # 5 THEN InvalidJob(raw_line)
    ELSE IF Len(line) < 6 THEN IndexError
    ELSE [kind |-> "Job",
          mins |-> times.sets[1], hours |-> times.sets[2],
          doms |-> times.sets[3], months |-> times.sets[4],
          dows |-> times.sets[5],
          dom_specified |-> times.sets[3] # Set_init(<<"*">>, DOM_RANGE),
          dow_specified |-> times.sets[5] # Set_init(<<"*">>, DOW_RANGE),
          job |-> line[6]]

\* Job.__init__(raw_line)
Job_init(raw_line) ==
    LET line == SplitWords(raw_line, 1, 5, <<>>)
        times == SetsOf(line, 1, <<>>)
    IN
    IF times.kind = "CronSyntaxError" THEN times
    ELSE IF times.kind = "ValueError" THEN InvalidJob(raw_line)
    ELSE IF Len(times.sets) # 5 THEN InvalidJob(raw_line)
    ELSE IF Len(line) < 6 THEN IndexError
    ELSE [kind |-> "Job",
          mins |-> times.sets[1], hours |-> times.sets[2],
          doms |-> times.sets[3], months |-> times.sets[4],
          dows |-> times.sets[5],
          dom_specified |-> line[3] # <<"*">>,
          dow_specified |-> line[5] # <<"*">>,
          job |-> line[6]]

\* parse_job(raw_line) of parser.py: parse_set builds the Set that
\* Set.__init__ builds; line[5] is evaluated before Job(times, line[5]) is
\* called, and its IndexError is not a ValueError.
parse_job(raw_line) ==
    LET line == SplitWords(raw_line, 1, 5, <<>>)
        times == SetsOf(line, 1, <<>>)
    IN
    IF times.kind = "CronSyntaxError" THEN times
    ELSE IF times.kind = "ValueError" THEN InvalidJob(raw_line)
    ELSE IF Len(line) < 6 THEN IndexError
    ELSE [kind |-> "Job",
          mins |-> times.sets[1], hours |-> times.sets[2],
          doms |-> times.sets[3], months |-> times.sets[4],
          dows |-> times.sets[5],
          dom_specified |-> line[3] # <<"*">>,
          dow_specified |-> line[5] # <<"*">>,
          job |-> line[6]]

NoValidTime ==
    [kind |-> "ValueError", msg |-> "Couldn't find a valid time for the cron job"]

DatetimeError == [kind |-> "ValueError", msg |-> "datetime"]

Found(carry, dt) == [kind |-> "found", carry |-> carry, dt |-> dt]

\* find_minute_hour(dt, minute_carry) of Job.next_value
find_minute_hour(j, dt, minute_carry) ==
    LET m == Set_next_value(j.mins, dt.minute, minute_carry)
        h == Set_next_value(j.hours, dt.hour, m[1])
        next_minute == IF h[1] THEN Set_next_value(j.mins, 0, FALSE)[2] ELSE m[2]
    IN
    IF h[2] \in 0..23 /\ next_minute \in 0..59
    THEN Found(h[1], [dt EXCEPT !.hour = h[2], !.minute = next_minute])
    ELSE NoValidTime

\* The number of passes of the loop of find_dom_month_year
MaxPasses == 100

\* One pass of the loop of find_dom_month_year over its locals dom, month
\* and year; hour_carry is the same in every pass.
DomPass(j, hour_carry, st) ==
    LET d == Set_next_value(j.doms, st.dom, hour_carry)
        m == Set_next_value(j.months, st.month, d[1])
        year == st.year + B2I(m[1])
        d2 == IF m[1] THEN Set_next_value(j.doms, 0, FALSE) ELSE d
    IN
    [dom |-> d2[2], month |-> m[2], year |-> year,
     carry |-> d2[1] \/ m[1],
     valid |-> ValidDate(year, m[2], d2[2])]

\* Up to n passes from st, stopping at the first valid date. The passes
\* are taken in two halves so that the evaluation does not nest n deep.
RECURSIVE DomPasses(_, _, _, _)
DomPasses(j, hour_carry, st, n) ==
    IF st.valid \/ n = 0 THEN st
    ELSE IF n = 1 THEN DomPass(j, hour_carry, st)
    ELSE DomPasses(j, hour_carry,
                   DomPasses(j, hour_carry, st, n \div 2), n - (n \div 2))

\* "for i in range(100)" from pass i on: the date of the first valid pass,
\* or the raise after the loop.
DomLoop(j, dt, hour_carry, st, i) ==
    LET p == DomPasses(j, hour_carry, st, MaxPasses - i) IN
    IF p.valid
    THEN Found(p.carry, [dt EXCEPT !.year = p.year, !.month = p.month, !.day = p.dom])
    ELSE NoValidTime

\* find_dom_month_year(dt, hour_carry) of Job.next_value
find_dom_month_year(j, dt, hour_carry) ==
    DomLoop(j, dt, hour_carry,
            [dom |-> dt.day, month |-> dt.month, year |-> dt.year,
             carry |-> FALSE, valid |-> FALSE], 0)

\* dows_to_timedelta(current, next), in days
dows_to_timedelta(current, next) ==
    (next - current) + 7 * (IF next < current THEN 1 ELSE 0)

\* find_dow_month_year accepting the landing date without asking the
\* month field.
find_dow_month_year_NoMonthCheck(j, dt, hour_carry) ==
    LET old_dow == isoweekday(dt) % 7
        d == Set_next_value(j.dows, old_dow, hour_carry)
        delta == dows_to_timedelta(old_dow, d[2])
        m1 == Set_next_value(j.months, dt.month, TRUE)
        year == dt.year + B2I(m1[1])
        first == [dt EXCEPT !.year = year, !.month = m1[2], !.day = 1]
        tmp_dow == isoweekday(first) % 7
        w == Set_next_value(j.dows, tmp_dow, FALSE)
    IN
    IF AddDays(dt, delta).month = dt.month
    THEN Found(d[1], AddDays(dt, delta))
    ELSE IF ~ValidDate(year, m1[2], 1) THEN DatetimeError
    ELSE Found(TRUE, AddDays(first, dows_to_timedelta(tmp_dow, w[2])))

\* find_dow_month_year(dt, hour_carry) of Job.next_value
find_dow_month_year(j, dt, hour_carry) ==
    LET old_dow == isoweekday(dt) % 7
        d == Set_next_value(j.dows, old_dow, hour_carry)
        delta == dows_to_timedelta(old_dow, d[2])
        m0 == Set_next_value(j.months, dt.month, FALSE)
        m1 == Set_next_value(j.months, dt.month, TRUE)
        year == dt.year + B2I(m1[1])
        first == [dt EXCEPT !.year = year, !.month = m1[2], !.day = 1]
        tmp_dow == isoweekday(first) % 7
        w == Set_next_value(j.dows, tmp_dow, FALSE)
    IN
    IF AddDays(dt, delta).month = dt.month /\ m0[2] = dt.month
    THEN Found(d[1], AddDays(dt, delta))
    ELSE IF ~ValidDate(year, m1[2], 1) THEN DatetimeError
    ELSE Found(TRUE, AddDays(first, dows_to_timedelta(tmp_dow, w[2])))

\* find_minute_hour(dt.replace(hour=0, minute=0), minute_carry=False)[1]
\* if high_carry else dt
Restart(j, f) ==
    IF f.carry
    THEN LET r == find_minute_hour(j, [f.dt EXCEPT !.hour = 0, !.minute = 0], FALSE) IN
         IF r.kind = "found" THEN [kind |-> "datetime", dt |-> r.dt] ELSE r
    ELSE [kind |-> "datetime", dt |-> f.dt]

\* The choice without the minimum: the DOM path whenever the day of month
\* is restricted.
SelectPath_DomFirst(j, dom_dt, dow_dt) ==
    IF j.dow_specified /\ ~j.dom_specified THEN dow_dt ELSE dom_dt

\* The last statement of Job.next_value: the choice between the two paths.
SelectPath(j, dom_dt, dow_dt) ==
    IF j.dow_specified /\ j.dom_specified THEN DtMin(dom_dt, dow_dt)
    ELSE IF j.dow_specified /\ ~j.dom_specified THEN dow_dt
    ELSE dom_dt

\* Job.next_value from the two paths' results on: both paths are computed
\* (the DOM path first) before either is used.
Finish(j, dom, dow) ==
    IF dom.kind # "found" THEN dom
    ELSE IF dow.kind # "found" THEN dow
    ELSE LET dom_dt == Restart(j, dom)
             dow_dt == Restart(j, dow)
         IN
         IF dom_dt.kind # "datetime" THEN dom_dt
         ELSE IF dow_dt.kind # "datetime" THEN dow_dt
         ELSE [kind |-> "datetime", dt |-> SelectPath(j, dom_dt.dt, dow_dt.dt)]

\* Job.next_value(dt)
Job_next_value(j, dt0) ==
    LET dt == [dt0 EXCEPT !.second = 0]
        a == find_minute_hour(j, dt, TRUE)
    IN
    IF a.kind # "found" THEN a
    ELSE Finish(j, find_dom_month_year(j, a.dt, a.carry),
                   find_dow_month_year(j, a.dt, a.carry))

-----------------------------------------------------------------------------
(* The inputs of the engine: job lines and reference timestamps            *)

MinuteTexts == {<<"*">>, <<"0">>, <<"*", "/", "3", "0">>}
HourTexts == {<<"*">>, <<"0">>}
DomTexts == {<<"*">>, <<"1">>, <<"1", "5">>, <<"2", "9">>, <<"3", "0">>, <<"3", "1">>}
MonthTexts == {<<"*">>, <<"2">>, <<"6", ",", "1", "1">>}
DowTexts == {<<"*">>, <<"3">>, <<"7">>, <<"1", "-", "5">>}

SP == <<" ">>

JobLine(mi, h, d, mo, w) ==
    mi \o SP \o h \o SP \o d \o SP \o mo \o SP \o w \o SP \o <<"t", "r", "u", "e">>

JobLines ==
    {JobLine(mi, h, d, mo, w) :
        mi \in MinuteTexts, h \in HourTexts, d \in DomTexts,
        mo \in MonthTexts, w \in DowTexts}

Jobs == {Job_init(l) : l \in JobLines}

Dates ==
    {<<2014, 1, 30>>, <<2014, 1, 31>>, <<2014, 2, 5>>, <<2014, 2, 28>>,
     <<2014, 11, 5>>, <<2014, 11, 15>>, <<2014, 11, 16>>, <<2014, 11, 17>>,
     <<2014, 11, 19>>, <<2014, 11, 29>>, <<2014, 12, 31>>, <<2016, 2, 28>>,
     <<2016, 2, 29>>, <<2196, 2, 29>>}

Times == {<<0, 0, 0, 0>>, <<10, 0, 0, 0>>, <<17, 4, 49, 250>>, <<23, 59, 0, 0>>}

Datetime(d, t) ==
    [year |-> d[1], month |-> d[2], day |-> d[3],
     hour |-> t[1], minute |-> t[2], second |-> t[3], microsecond |-> t[4]]

Nows == {Datetime(d, t) : d \in Dates, t \in Times}

-----------------------------------------------------------------------------
(* Spec: one call of Job.next_value(now) on a parsed job                   *)

Init ==
    /\ job \in Jobs
    /\ now \in Nows
    /\ pc = "call"
    /\ result = None
    /\ loop = None
    /\ arg = None
    /\ ret = None

next_value ==
    /\ pc = "call"
    /\ result' = Job_next_value(job, now)
    /\ pc' = "done"
    /\ UNCHANGED <<arg, ret, job, now, loop>>

Next == next_value

Spec == Init /\ [][Next]_vars

-----------------------------------------------------------------------------
(* SpecLoop: the same call, one pass of the loop of find_dom_month_year    *)
(* at a time                                                               *)

LoopDomTexts == {<<"*">>, <<"2", "9">>, <<"3", "0">>, <<"3", "1">>}
LoopMonthTexts == {<<"*">>, <<"2">>}
LoopDowTexts == {<<"*">>, <<"3">>}

LoopJobs ==
    {Job_init(JobLine(<<"*">>, <<"*">>, d, mo, w)) :
        d \in LoopDomTexts, mo \in LoopMonthTexts, w \in LoopDowTexts}

InitLoop ==
    /\ job \in LoopJobs
    /\ now \in Nows
    /\ pc = "call"
    /\ result = None
    /\ loop = None
    /\ arg = None
    /\ ret = None

\* dt.replace(second=0) and the first call of find_minute_hour
enter ==
    /\ pc = "call"
    /\ LET a == find_minute_hour(job, [now EXCEPT !.second = 0], TRUE) IN
       IF a.kind # "found"
       THEN /\ result' = a
            /\ pc' = "done"
            /\ UNCHANGED loop
       ELSE /\ loop' = [i |-> 0, dom |-> a.dt.day, month |-> a.dt.month,
                        year |-> a.dt.year, hour_carry |-> a.carry,
                        time |-> a.dt, found |-> None]
            /\ pc' = "dom"
            /\ UNCHANGED result
    /\ UNCHANGED <<arg, ret, job, now>>

\* The loop as "while True": a pass that does not count.
pass_NoCount ==
    /\ pc = "dom"
    /\ loop.i < MaxPasses
    /\ LET p == DomPass(job, loop.hour_carry, loop) IN
       IF p.valid
       THEN /\ loop' = [loop EXCEPT !.i = loop.i + 1,
                           !.found = Found(p.carry,
                               [loop.time EXCEPT !.year = p.year, !.month = p.month,
                                                 !.day = p.dom])]
            /\ pc' = "dow"
       ELSE /\ loop' = [loop EXCEPT !.dom = p.dom, !.month = p.month, !.year = p.year]
            /\ pc' = "dom"
    /\ UNCHANGED <<arg, ret, job, now, result>>

\* One pass of "for i in range(100)": return on a valid date, continue
\* otherwise.
pass ==
    /\ pc = "dom"
    /\ loop.i < MaxPasses
    /\ LET p == DomPass(job, loop.hour_carry, loop) IN
       IF p.valid
       THEN /\ loop' = [loop EXCEPT !.i = loop.i + 1,
                           !.found = Found(p.carry,
                               [loop.time EXCEPT !.year = p.year, !.month = p.month,
                                                 !.day = p.dom])]
            /\ pc' = "dow"
       ELSE /\ loop' = [loop EXCEPT !.i = loop.i + 1, !.dom = p.dom,
                                    !.month = p.month, !.year = p.year]
            /\ pc' = "dom"
    /\ UNCHANGED <<arg, ret, job, now, result>>

\* The raise after the loop.
exhausted ==
    /\ pc = "dom"
    /\ loop.i >= MaxPasses
    /\ result' = NoValidTime
    /\ pc' = "done"
    /\ UNCHANGED <<arg, ret, job, now, loop>>

\* The DOW path and the rest of Job.next_value.
finish ==
    /\ pc = "dow"
    /\ result' = Finish(job, loop.found,
                        find_dow_month_year(job, loop.time, loop.hour_carry))
    /\ pc' = "done"
    /\ UNCHANGED <<arg, ret, job, now, loop>>

NextLoop == enter \/ pass \/ exhausted \/ finish

SpecLoop == InitLoop /\ [][NextLoop]_vars

-----------------------------------------------------------------------------
(* SpecRange: Range.next_value against Range.validate                      *)

RangeMax == 12

RangeArgs ==
    {[r |-> Range(lo, hi, step), current |-> current, carry |-> carry] :
        lo \in 0..RangeMax, hi \in 0..RangeMax, step \in 1..RangeMax,
        current \in 0..RangeMax, carry \in BOOLEAN}

InitRange ==
    /\ arg \in {a \in RangeArgs : a.r.min <= a.r.max}
    /\ ret = None
    /\ job = None
    /\ now = None
    /\ pc = "call"
    /\ loop = None
    /\ result = None

\* One round of the fuzz test: both functions on the same arguments.
fuzz_Range_next_value ==
    /\ pc = "call"
    /\ ret' = [next_value |-> Range_next_value(arg.r, arg.current, arg.carry),
               validate |-> Range_validate(arg.r, arg.current, arg.carry)]
    /\ pc' = "done"
    /\ UNCHANGED <<arg, job, now, loop, result>>

NextRange == fuzz_Range_next_value

SpecRange == InitRange /\ [][NextRange]_vars

-----------------------------------------------------------------------------
(* SpecSet: Set.next_value on Sets of up to MaxSetLen Ranges               *)

SetValMax == 3
SetStepMax == 2
MaxSetLen == 2

SetRanges ==
    {Range(lo, hi, step) : lo \in 0..SetValMax, hi \in 0..SetValMax, step \in 1..SetStepMax}

RangeTuples ==
    UNION {[1..n -> {r \in SetRanges : r.min <= r.max}] : n \in 1..MaxSetLen}

InitSet ==
    /\ \E t \in RangeTuples, current \in 0..(SetValMax + 1), carry \in BOOLEAN :
          arg = [s |-> [kind |-> "Set", ranges |-> t], current |-> current, carry |-> carry]
    /\ ret = None
    /\ job = None
    /\ now = None
    /\ pc = "call"
    /\ loop = None
    /\ result = None

call_Set_next_value ==
    /\ pc = "call"
    /\ ret' = Set_next_value(arg.s, arg.current, arg.carry)
    /\ pc' = "done"
    /\ UNCHANGED <<arg, job, now, loop, result>>

NextSet == call_Set_next_value

SpecSet == InitSet /\ [][NextSet]_vars

-----------------------------------------------------------------------------
(* SpecRoundTrip: Range.__repr__ followed by parse_range                   *)

RoundTripMax == 15

InitRoundTrip ==
    /\ arg \in {[r |-> Range(lo, hi, step), star_range |-> STAR_RANGES[k]] :
                    lo \in 0..RoundTripMax, hi \in 0..RoundTripMax,
                    step \in 1..RoundTripMax, k \in 1..5}
    /\ arg.r.min <= arg.r.max
    /\ ret = None
    /\ job = None
    /\ now = None
    /\ pc = "call"
    /\ loop = None
    /\ result = None

repr_then_parse ==
    /\ pc = "call"
    /\ ret' = [text |-> Range_repr(arg.r),
               parsed |-> parse_range(Range_repr(arg.r), arg.star_range)]
    /\ pc' = "done"
    /\ UNCHANGED <<arg, job, now, loop, result>>

NextRoundTrip == repr_then_parse

SpecRoundTrip == InitRoundTrip /\ [][NextRoundTrip]_vars

-----------------------------------------------------------------------------
(* SpecElement: Range.__init__ on every text of up to MaxElementLen        *)
(* characters                                                              *)

ElementChars == {"0", "1", "5", "*", "-", "/", "a"}

MaxElementLen == 4

ElementTexts == UNION {[1..n -> ElementChars] : n \in 0..MaxElementLen}

InitElement ==
    /\ \E t \in ElementTexts, k \in 1..5 :
          arg = [text |-> t, star_range |-> STAR_RANGES[k]]
    /\ ret = None
    /\ job = None
    /\ now = None
    /\ pc = "call"
    /\ loop = None
    /\ result = None

call_Range_init ==
    /\ pc = "call"
    /\ ret' = Range_init(arg.text, arg.star_range)
    /\ pc' = "done"
    /\ UNCHANGED <<arg, job, now, loop, result>>

NextElement == call_Range_init

SpecElement == InitElement /\ [][NextElement]_vars

-----------------------------------------------------------------------------
(* SpecJobLine: Job.__init__ and parse_job on lines of zero to five time   *)
(* fields, with or without a command                                       *)

PlainTexts == {<<"*">>, <<"3">>, <<"1", "/", "a">>, <<"5", "-", "1">>}

FieldTexts ==
    <<PlainTexts,
      PlainTexts,
      {<<"*">>, <<"3">>, <<"1", "-", "3", "1">>, <<"*", "/", "1">>, <<"1", "/", "a">>},
      PlainTexts,
      {<<"*">>, <<"3">>, <<"1", "-", "7">>, <<"*", "/", "1">>, <<"5", "-", "1">>}>>

\* No command, a one-word command, a command with blanks inside.
Commands == {<<>>, <<"x">>, <<"x", " ", " ", "y">>}

Separators == {<<" ">>, <<" ", "\t">>}

FieldLists ==
    UNION {{f \in [1..n -> UNION {FieldTexts[k] : k \in 1..5}] :
               \A k \in 1..n : f[k] \in FieldTexts[k]} : n \in 0..5}

RECURSIVE Join(_, _)
Join(words, sep) ==
    IF words = <<>> THEN <<>>
    ELSE IF Len(words) = 1 THEN words[1]
    ELSE words[1] \o sep \o Join(Tail(words), sep)

LineOf(fields, command, sep) ==
    Join(IF command = <<>> THEN fields ELSE Append(fields, command), sep)

InitJobLine ==
    /\ \E f \in FieldLists, c \in Commands, sp \in Separators,
          via \in {"Job", "parse_job"} :
          /\ Len(f) < 5 => c = <<>>
          /\ arg = [fields |-> f, command |-> c, line |-> LineOf(f, c, sp), via |-> via]
    /\ ret = None
    /\ job = None
    /\ now = None
    /\ pc = "call"
    /\ loop = None
    /\ result = None

call_Job ==
    /\ pc = "call"
    /\ arg.via = "Job"
    /\ ret' = Job_init(arg.line)
    /\ pc' = "done"
    /\ UNCHANGED <<arg, job, now, loop, result>>

call_parse_job ==
    /\ pc = "call"
    /\ arg.via = "parse_job"
    /\ ret' = parse_job(arg.line)
    /\ pc' = "done"
    /\ UNCHANGED <<arg, job, now, loop, result>>

NextJobLine == call_Job \/ call_parse_job

SpecJobLine == InitJobLine /\ [][NextJobLine]_vars

-----------------------------------------------------------------------------
(* Crontab                                                                 *)

RECURSIVE LastNonSpace(_, _)
LastNonSpace(s, k) ==
    IF k >= 1 /\ IsSpace(s[k]) THEN LastNonSpace(s, k - 1) ELSE k

\* str.strip()
Strip(s) ==
    LET b == SkipSpace(s, 1) IN
    IF b > Len(s) THEN <<>> ELSE SubSeq(s, b, LastNonSpace(s, Len(s)))

Letters ==
    {"a", "b", "c", "d", "e", "f", "g", "h", "i", "j", "k", "l", "m",
     "n", "o", "p", "q", "r", "s", "t", "u", "v", "w", "x", "y", "z",
     "A", "B", "C", "D", "E", "F", "G", "H", "I", "J", "K", "L", "M",
     "N", "O", "P", "Q", "R", "S", "T", "U", "V", "W", "X", "Y", "Z"}

\* \w of the regular expression
IsWordChar(c) == IsDigit(c) \/ c \in Letters \/ c = "_"

RECURSIVE WordCharEnd(_, _)
WordCharEnd(s, k) ==
    IF k <= Len(s) /\ IsWordChar(s[k]) THEN WordCharEnd(s, k + 1) ELSE k

\* re.match("\w+\s*=", line): anchored at the start of the line; the
\* greedy match is the only one, since a shorter \w+ is followed by a
\* word character.
MatchAssignment(line) ==
    LET w == WordCharEnd(line, 1)
        e == SkipSpace(line, w)
    IN w > 1 /\ e <= Len(line) /\ line[e] = "="

\* The skip test with any '=' in the line taken for an assignment.
SkipLine_AnyEquals(line) ==
    \/ Len(line) = 0
    \/ line[1] = "#"
    \/ \E k \in 1..Len(line) : line[k] = "="

\* The test of Crontab.__init__ on the stripped line.
SkipLine(line) ==
    \/ Len(line) = 0
    \/ line[1] = "#"
    \/ MatchAssignment(line)

\* "e.lineno = lineno" on a CronSyntaxError; any other error propagates
\* as it is.
WithLineno(e, lineno) ==
    IF e.kind = "CronSyntaxError"
    THEN [kind |-> e.kind, msg |-> e.msg, text |-> e.text, lineno |-> lineno]
    ELSE e

-----------------------------------------------------------------------------
(* SpecCrontab: Crontab.__init__ on files of up to MaxLines lines, one     *)
(* line of the loop at a time                                              *)

MaxLines == 3

StarJob(cmd) == <<"*", " ", "*", " ", "*", " ", "*", " ", "*", " ">> \o cmd

LineTexts ==
    {<<>>,
     <<" ", "\t">>,
     <<"#", "c">>,
     <<" ", "#", "c">>,
     <<"V", "=", "3">>,
     <<"V", " ", "=", " ", "3">>,
     <<"5", " ", "=", "x">>,
     StarJob(<<"a">>),
     <<" ">> \o StarJob(<<"b", "=", "c", " ">>),
     <<"=", "x", " ">> \o StarJob(<<"a">>),
     <<"5", "-", "1", " ">> \o StarJob(<<"a">>),
     <<"a", " ", "b", "=", "3">>,
     <<"*", " ", "*", " ", "*", " ", "*">>,
     <<"*", " ", "*", " ", "*", " ", "*", " ", "*">>}

\* The lines a file yields: each ends with its newline, the last one
\* possibly without.
FileOf(texts, eol) ==
    [k \in 1..Len(texts) |->
        IF k < Len(texts) \/ eol THEN texts[k] \o <<"\n">> ELSE texts[k]]

InitCrontab ==
    /\ \E n \in 0..MaxLines :
          \E texts \in [1..n -> LineTexts], eol \in BOOLEAN :
             /\ ~eol => (n >= 1 /\ texts[n] # <<>>)
             /\ arg = [file |-> FileOf(texts, eol)]
    /\ loop = [lineno |-> 0, jobs |-> <<>>]
    /\ pc = "lines"
    /\ ret = None
    /\ result = None
    /\ job = None
    /\ now = None

\* One pass of "for line in file".
read_line ==
    /\ pc = "lines"
    /\ loop.lineno < Len(arg.file)
    /\ LET lineno == loop.lineno + 1
           line == Strip(arg.file[lineno])
           j == Job_init(line)
       IN
       IF SkipLine(line) THEN
           /\ loop' = [loop EXCEPT !.lineno = lineno]
           /\ UNCHANGED <<pc, result>>
       ELSE IF j.kind = "Job" THEN
           /\ loop' = [lineno |-> lineno, jobs |-> Append(loop.jobs, j)]
           /\ UNCHANGED <<pc, result>>
       ELSE
           /\ loop' = [loop EXCEPT !.lineno = lineno]
           /\ pc' = "raised"
           /\ result' = WithLineno(j, lineno)
    /\ UNCHANGED <<arg, ret, job, now>>

\* The file is exhausted: the Crontab is constructed.
end_of_file ==
    /\ pc = "lines"
    /\ loop.lineno = Len(arg.file)
    /\ ret' = [kind |-> "Crontab", jobs |-> loop.jobs]
    /\ pc' = "done"
    /\ UNCHANGED <<arg, job, now, loop, result>>

NextCrontab == read_line \/ end_of_file

SpecCrontab == InitCrontab /\ [][NextCrontab]_vars

-----------------------------------------------------------------------------
(* SpecRuns: the generator returned by Crontab.next_runs(now), one         *)
(* next() of its consumer at a time                                        *)

MaxJobs == 3

RunLine(d, mo, w, cmd) ==
    <<"0">> \o SP \o <<"0">> \o SP \o d \o SP \o mo \o SP \o w \o SP \o cmd

\* 'b' never has a valid time: there is no 31 February.
RunJobs ==
    {Job_init(RunLine(<<"*">>, <<"*">>, <<"*">>, <<"a">>)),
     Job_init(RunLine(<<"3", "1">>, <<"2">>, <<"*">>, <<"b">>)),
     Job_init(RunLine(<<"*">>, <<"*">>, <<"3">>, <<"c">>))}

RunNows ==
    {Datetime(d, t) :
        d \in {<<2014, 1, 30>>, <<2014, 11, 15>>, <<2014, 11, 19>>},
        t \in {<<17, 4, 49, 250>>, <<23, 59, 0, 0>>}}

InitRuns ==
    /\ \E n \in 0..MaxJobs : \E js \in [1..n -> RunJobs] : arg = [jobs |-> js]
    /\ now \in RunNows
    /\ loop = [k |-> 0]
    /\ ret = <<>>
    /\ pc = "running"
    /\ result = None
    /\ job = None

\* next() on the running generator: the pair of the next job, or the
\* error of its job.next_value(now), which ends the generator.
next_pair ==
    /\ pc = "running"
    /\ loop.k < Len(arg.jobs)
    /\ LET j == arg.jobs[loop.k + 1]
           v == Job_next_value(j, now)
       IN
       IF v.kind = "datetime" THEN
           /\ ret' = Append(ret, <<j.job, v.dt>>)
           /\ UNCHANGED <<pc, result>>
       ELSE
           /\ pc' = "raised"
           /\ result' = v
           /\ UNCHANGED ret
    /\ loop' = [k |-> loop.k + 1]
    /\ UNCHANGED <<arg, job, now>>

\* next() after the last job: StopIteration.
stop_iteration ==
    /\ pc = "running"
    /\ loop.k = Len(arg.jobs)
    /\ pc' = "stopped"
    /\ UNCHANGED <<arg, ret, job, now, loop, result>>

\* next() on a generator that raised: it is finished, StopIteration.
next_after_error ==
    /\ pc = "raised"
    /\ pc' = "stopped"
    /\ UNCHANGED <<arg, ret, job, now, loop, result>>

NextRuns == next_pair \/ stop_iteration \/ next_after_error

SpecRuns == InitRuns /\ [][NextRuns]_vars

-----------------------------------------------------------------------------
(* SpecDow: find_dow_month_year of Job.next_value, one statement group at  *)
(* a time, on jobs whose day-of-week Sets lie within 1..7                  *)

WeekdayTexts ==
    {<<"*">>, <<"1">>, <<"2">>, <<"3">>, <<"4">>, <<"5">>, <<"6">>, <<"7">>,
     <<"1", "-", "5">>, <<"6", "-", "7">>, <<"1", ",", "7">>, <<"*", "/", "2">>}

DowMonthTexts == {<<"*">>, <<"2">>, <<"1", "1">>}

DowJobs ==
    {Job_init(JobLine(<<"*">>, <<"*">>, <<"*">>, mo, w)) :
        mo \in DowMonthTexts, w \in WeekdayTexts}

InitDow ==
    /\ job \in DowJobs
    /\ now \in Nows
    /\ pc = "call"
    /\ result = None
    /\ loop = None
    /\ arg = None
    /\ ret = None

\* dt.replace(second=0) and the first call of find_minute_hour, whose
\* result find_dow_month_year is called with.
enter_dow ==
    /\ pc = "call"
    /\ LET a == find_minute_hour(job, [now EXCEPT !.second = 0], TRUE) IN
       IF a.kind # "found"
       THEN /\ result' = a
            /\ pc' = "raised"
            /\ UNCHANGED arg
       ELSE /\ arg' = [dt |-> a.dt, hour_carry |-> a.carry]
            /\ pc' = "dow"
            /\ UNCHANGED result
    /\ UNCHANGED <<ret, job, now, loop>>

\* old_dow, self.dows.next_value(old_dow, carry=hour_carry) and delta
first_delta ==
    /\ pc = "dow"
    /\ LET old_dow == isoweekday(arg.dt) % 7
           d == Set_next_value(job.dows, old_dow, arg.hour_carry)
       IN loop' = [old_dow |-> old_dow, dow_carry |-> d[1], dow |-> d[2],
                   delta |-> dows_to_timedelta(old_dow, d[2])]
    /\ pc' = "month"
    /\ UNCHANGED <<arg, ret, job, now, result>>

SameMonth ==
    /\ AddDays(arg.dt, loop.delta).month = arg.dt.month
    /\ Set_next_value(job.months, arg.dt.month, FALSE)[2] = arg.dt.month

\* return dow_carry, dt + delta
same_month ==
    /\ pc = "month"
    /\ SameMonth
    /\ ret' = Found(loop.dow_carry, AddDays(arg.dt, loop.delta))
    /\ pc' = "same"
    /\ UNCHANGED <<arg, job, now, loop, result>>

\* The first day of the next month of the month field, realigned.
next_month ==
    /\ pc = "month"
    /\ ~SameMonth
    /\ LET m1 == Set_next_value(job.months, arg.dt.month, TRUE)
           year == arg.dt.year + B2I(m1[1])
           first == [arg.dt EXCEPT !.year = year, !.month = m1[2], !.day = 1]
           tmp_dow == isoweekday(first) % 7
           w == Set_next_value(job.dows, tmp_dow, FALSE)
       IN
       IF ~ValidDate(year, m1[2], 1)
       THEN /\ result' = DatetimeError
            /\ pc' = "raised"
            /\ UNCHANGED <<ret, loop>>
       ELSE /\ loop' = [old_dow |-> tmp_dow, dow_carry |-> w[1], dow |-> w[2],
                        delta |-> dows_to_timedelta(tmp_dow, w[2])]
            /\ ret' = Found(TRUE, AddDays(first, dows_to_timedelta(tmp_dow, w[2])))
            /\ pc' = "next"
            /\ UNCHANGED result
    /\ UNCHANGED <<arg, job, now>>

NextDow == enter_dow \/ first_delta \/ same_month \/ next_month

SpecDow == InitDow /\ [][NextDow]_vars

-----------------------------------------------------------------------------
(* What a schedule means, stated without the next-value operations         *)

\* v is a point of the grid min, min + step, ... of r, not above max
InRange(r, v) == v >= r.min /\ v <= r.max /\ (v - r.min) % r.step = 0

InSet(s, v) == \E k \in 1..Len(s.ranges) : InRange(s.ranges[k], v)

\* The day rule on a date: weekdays are numbered 1 (Monday) to 7 (Sunday).
DayMatches(j, dt) ==
    LET d == InSet(j.doms, dt.day)
        w == InSet(j.dows, isoweekday(dt))
    IN
    IF j.dom_specified /\ j.dow_specified THEN d \/ w
    ELSE IF j.dow_specified THEN w
    ELSE d

Matches(j, dt) ==
    /\ InSet(j.mins, dt.minute)
    /\ InSet(j.hours, dt.hour)
    /\ InSet(j.months, dt.month)
    /\ DayMatches(j, dt)

MinuteOf(dt) == <<dt.year, dt.month, dt.day, dt.hour, dt.minute>>

Returned == pc = "done" /\ result.kind = "datetime"

\* C1: whenever next_value returns a timestamp, it is strictly later than
\* now truncated to the minute.
C1_StrictlyLater ==
    Returned => SeqLess(MinuteOf(now), MinuteOf(result.dt))

\* C2: every timestamp next_value returns matches the schedule: minute,
\* hour and month are values of their Sets and the day satisfies the day
\* rule.
C2_ResultMatches ==
    Returned => Matches(job, result.dt)

\* C2 witness: a timestamp was returned for a job with both day fields
\* restricted, and it is the weekday, not the day of month, that matches.
C2_Witness ==
    /\ Returned
    /\ job.dom_specified /\ job.dow_specified
    /\ ~InSet(job.doms, result.dt.day)
    /\ InSet(job.dows, isoweekday(result.dt))

\* C3: the returned timestamp is the earliest match: no minute t with
\* now < t < result matches the schedule.
C3_Earliest ==
    Returned =>
        ~ \E y \in now.year..result.dt.year, m \in 1..12, d \in 1..31 :
            /\ ValidDate(y, m, d)
            /\ ~SeqLess(<<y, m, d>>, <<now.year, now.month, now.day>>)
            /\ ~SeqLess(<<result.dt.year, result.dt.month, result.dt.day>>, <<y, m, d>>)
            /\ InSet(job.months, m)
            /\ DayMatches(job, [year |-> y, month |-> m, day |-> d])
            /\ \E h \in 0..23, mi \in 0..59 :
                  /\ InSet(job.hours, h)
                  /\ InSet(job.mins, mi)
                  /\ SeqLess(MinuteOf(now), <<y, m, d, h, mi>>)
                  /\ SeqLess(<<y, m, d, h, mi>>, MinuteOf(result.dt))

\* The timestamps of the two paths for the current call.
PathTime(f) == Restart(job, f).dt

DomPathTime ==
    LET a == find_minute_hour(job, [now EXCEPT !.second = 0], TRUE)
    IN PathTime(find_dom_month_year(job, a.dt, a.carry))

DowPathTime ==
    LET a == find_minute_hour(job, [now EXCEPT !.second = 0], TRUE)
    IN PathTime(find_dow_month_year(job, a.dt, a.carry))

\* C4: a returned timestamp is chosen by the disjunction rule: the earlier
\* of the two paths' timestamps when both day fields are restricted, the
\* DOW path's when only the day of week is, the DOM path's otherwise.
C4_Disjunction ==
    Returned =>
        /\ (job.dom_specified /\ job.dow_specified) =>
              /\ result.dt \in {DomPathTime, DowPathTime}
              /\ ~DtLess(DomPathTime, result.dt)
              /\ ~DtLess(DowPathTime, result.dt)
        /\ (job.dow_specified /\ ~job.dom_specified) => result.dt = DowPathTime
        /\ ~job.dow_specified => result.dt = DomPathTime

\* C4 witness: both day fields restricted and the DOW path strictly
\* earlier than the DOM path.
C4_Witness ==
    /\ Returned
    /\ job.dom_specified /\ job.dow_specified
    /\ DtLess(DowPathTime, DomPathTime)
    /\ result.dt = DowPathTime

\* Some day of the day-of-month Set exists in some month of the month Set.
Satisfiable(j) ==
    \E d \in 1..31, m \in 1..12 :
        InSet(j.doms, d) /\ InSet(j.months, m) /\ d <= DaysInMonth(2016, m)

\* C5: the "Couldn't find a valid time" error is raised only for schedules
\* that can never be satisfied: a schedule whose day-of-month and month
\* Sets admit a valid date gets a timestamp for every now.
C5_ErrorOnlyIfUnsatisfiable ==
    (pc = "done" /\ Satisfiable(job)) => result.kind = "datetime"

Feb29Job == Job_init(JobLine(<<"*">>, <<"*">>, <<"2", "9">>, <<"2">>, <<"*">>))

\* The first leap year whose 29 February is after the day of dt.
NextLeapYear(dt) ==
    CHOOSE y \in dt.year..(dt.year + 8) :
        /\ IsLeap(y)
        /\ SeqLess(<<dt.year, dt.month, dt.day>>, <<y, 2, 29>>)
        /\ \A z \in dt.year..(y - 1) :
              ~(IsLeap(z) /\ SeqLess(<<dt.year, dt.month, dt.day>>, <<z, 2, 29>>))

\* C6: for "* * 29 2 *" and every now that is not on a 29 February,
\* next_value returns 00:00 on 29 February of the first leap year whose
\* 29 February lies after now.
C6_NextLeapDay ==
    (pc = "done" /\ job = Feb29Job /\ ~(now.month = 2 /\ now.day = 29)) =>
        /\ result.kind = "datetime"
        /\ MinuteOf(result.dt) = <<NextLeapYear(now), 2, 29, 0, 0>>

NeverValid(j) == ~Satisfiable(j)

\* An upper bound on the steps the call still takes.
StepsLeft ==
    IF pc = "call" THEN 103
    ELSE IF pc = "dom" THEN 102 - loop.i
    ELSE IF pc = "dow" THEN 1
    ELSE 0

\* The guards of enter, pass, exhausted and finish: each of them assigns
\* its primed variables whenever its guard holds.
CanStep ==
    \/ pc = "call"
    \/ pc = "dom" /\ loop.i < MaxPasses
    \/ pc = "dom" /\ loop.i >= MaxPasses
    \/ pc = "dow"

\* C7: every call of next_value terminates: every step of the call brings
\* it closer to its end and a call that has not ended can take a step; the
\* retry loop runs at most 100 passes and then the call ends with the
\* "no valid time" error, which is how the call ends for a schedule whose
\* day never exists.
C7_Terminates ==
    /\ [][StepsLeft' < StepsLeft]_vars
    /\ [](StepsLeft >= 0)
    /\ [](pc # "done" => CanStep)
    /\ [](pc = "dom" => loop.i <= 100)
    /\ []((pc = "done" /\ NeverValid(job)) => result = NoValidTime)
    /\ []((pc = "done" /\ loop # None /\ loop.found = None) =>
              (loop.i = 100 /\ result = NoValidTime))

\* C7 witness: the call for day 31 of February has ended with the error
\* after 100 passes.
C7_Witness ==
    /\ pc = "done"
    /\ NeverValid(job)
    /\ loop # None
    /\ loop.i = 100
    /\ result = NoValidTime

\* C8: the closed form of Range.next_value returns the same pair as the
\* linear scan of Range.validate.
C8_NextValueIsScan ==
    pc = "done" => ret.next_value = ret.validate

\* C8 witness: the boundary current + carry = min has been compared.
C8_Witness ==
    /\ pc = "done"
    /\ arg.current + B2I(arg.carry) = arg.r.min
    /\ arg.r.min > 0
    /\ arg.r.step > 1
    /\ ret.next_value = <<FALSE, arg.r.min>>

MemberResults ==
    {Range_next_value(arg.s.ranges[k], arg.current, arg.carry) :
        k \in 1..Len(arg.s.ranges)}

\* C9: Set.next_value returns the smallest (carry, value) of its members'
\* results with the carry compared first: a no-carry result wins over every
\* carry result, the smaller value wins among equal carries, and the carry
\* is set only when every member has carried.
C9_SetMinimum ==
    pc = "done" =>
        /\ ret \in MemberResults
        /\ \A m \in MemberResults :
              /\ (~m[1] /\ ret[1]) = FALSE
              /\ (m[1] = ret[1]) => ret[2] <= m[2]
        /\ ret[1] => \A m \in MemberResults : m[1]

\* C9 witness: a no-carry result has won over a carry result of smaller
\* value.
C9_Witness ==
    /\ pc = "done"
    /\ ~ret[1]
    /\ \E m \in MemberResults : m[1] /\ m[2] < ret[2]

\* C10: rendering a Range as min-max/step and parsing the text with the
\* same bounds yields a Range with equal min, max and step.
C10_RoundTrip ==
    pc = "done" =>
        /\ ret.parsed.kind = "Range"
        /\ Range_eq(ret.parsed, arg.r)

\* C10 witness: a Range with numbers of two digits and a step above 1 has
\* made the round trip.
C10_Witness ==
    /\ pc = "done"
    /\ arg.r.min >= 10
    /\ arg.r.max > arg.r.min
    /\ arg.r.step >= 10
    /\ ret.parsed.kind = "Range"

-----------------------------------------------------------------------------
(* The element grammar, stated on the text                                 *)

\* NUMBER: one or more decimal digits
IsNumber(t) ==
    /\ Len(t) >= 1
    /\ \A k \in 1..Len(t) : t[k] \in {"0", "1", "2", "3", "4", "5", "6", "7", "8", "9"}

Pow10(n) == IF n = 0 THEN 1 ELSE IF n = 1 THEN 10 ELSE IF n = 2 THEN 100
            ELSE IF n = 3 THEN 1000 ELSE IF n = 4 THEN 10000 ELSE 100000

CharValue(c) ==
    CASE c = "0" -> 0 [] c = "1" -> 1 [] c = "2" -> 2 [] c = "3" -> 3 [] c = "4" -> 4
      [] c = "5" -> 5 [] c = "6" -> 6 [] c = "7" -> 7 [] c = "8" -> 8 [] c = "9" -> 9

\* The number a NUMBER denotes: the sum of its digits times their powers of ten.
RECURSIVE DigitSum(_, _)
DigitSum(t, k) ==
    IF k > Len(t) THEN 0
    ELSE CharValue(t[k]) * Pow10(Len(t) - k) + DigitSum(t, k + 1)

NumberValue(t) == DigitSum(t, 1)

Count(t, c) == Cardinality({k \in 1..Len(t) : t[k] = c})

Before(t, k) == SubSeq(t, 1, k - 1)

After(t, k) == SubSeq(t, k + 1, Len(t))

\* lo-hi: NUMBER '-' NUMBER
IsLoHi(t) ==
    \E k \in 1..Len(t) : t[k] = "-" /\ IsNumber(Before(t, k)) /\ IsNumber(After(t, k))

Lo(t) == NumberValue(Before(t, CHOOSE k \in 1..Len(t) : t[k] = "-"))

Hi(t) == NumberValue(After(t, CHOOSE k \in 1..Len(t) : t[k] = "-"))

\* base := '*' | NUMBER | NUMBER '-' NUMBER
IsBase(t) == t = <<"*">> \/ IsNumber(t) \/ IsLoHi(t)

\* element := base ('/' STEP)?
IsElement(t) ==
    \/ IsBase(t)
    \/ \E k \in 1..Len(t) :
          t[k] = "/" /\ IsBase(Before(t, k)) /\ IsNumber(After(t, k))

\* The text after the '/' of an element with one '/'.
StepText(t) == After(t, CHOOSE k \in 1..Len(t) : t[k] = "/")

BaseText(t) == Before(t, CHOOSE k \in 1..Len(t) : t[k] = "/")

PositiveStep(t) == IsNumber(StepText(t)) /\ NumberValue(StepText(t)) >= 1

\* C11: '*' parses to Range(bounds.min, bounds.max, 1) and '*/N' to
\* Range(bounds.min, bounds.max, N) for every field's bounds; a bare number
\* n parses to Range(n, n, 1) and lo-hi (lo not above hi) to Range(lo, hi, 1).
C11_ElementValues ==
    pc = "done" =>
        /\ arg.text = <<"*">> =>
              ret = Range(arg.star_range[1], arg.star_range[2], 1)
        /\ (Count(arg.text, "/") = 1 /\ BaseText(arg.text) = <<"*">>
                /\ PositiveStep(arg.text)) =>
              ret = Range(arg.star_range[1], arg.star_range[2],
                          NumberValue(StepText(arg.text)))
        /\ IsNumber(arg.text) =>
              ret = Range(NumberValue(arg.text), NumberValue(arg.text), 1)
        /\ (IsLoHi(arg.text) /\ Lo(arg.text) <= Hi(arg.text)) =>
              ret = Range(Lo(arg.text), Hi(arg.text), 1)

\* C11 witness: '*/5' has been parsed with the day-of-week bounds.
C11_Witness ==
    /\ pc = "done"
    /\ arg.text = <<"*", "/", "5">>
    /\ arg.star_range = DOW_RANGE
    /\ ret = Range(1, 7, 5)

\* C12: an element with a '/step' whose step is not a positive integer
\* fails with the Invalid Field syntax error, so every Range the parser
\* returns has a step of at least 1.
C12_BadStepRejected ==
    pc = "done" =>
        /\ (Count(arg.text, "/") = 1 /\ ~PositiveStep(arg.text)) =>
              ret = InvalidField(arg.text)
        /\ (ret.kind = "Range") => (ret.step >= 1)

\* C13: an element that is empty, has an empty base before '/', has more
\* than one '/', has more than one '-', or is lo-hi with lo above hi fails
\* with the Invalid Field syntax error carrying the text, and no Range is
\* returned.
C13_MalformedRejected ==
    pc = "done" =>
        ((\/ arg.text = <<>>
          \/ Len(arg.text) >= 1 /\ arg.text[1] = "/"
          \/ Count(arg.text, "/") > 1
          \/ Count(arg.text, "-") > 1
          \/ IsLoHi(arg.text) /\ Lo(arg.text) > Hi(arg.text))
         => ret = InvalidField(arg.text))

GrammarChars == {"0", "1", "2", "3", "4", "5", "6", "7", "8", "9", "*", "-", "/"}

\* C20: the element grammar is exact: a text over the digits, '*', '-'
\* and '/' is accepted only if it is an element of the grammar, and every
\* other such text fails with the Invalid Field syntax error.
C20_GrammarExact ==
    (pc = "done" /\ \A k \in 1..Len(arg.text) : arg.text[k] \in GrammarChars) =>
        /\ (ret.kind = "Range") => IsElement(arg.text)
        /\ (~IsElement(arg.text)) => (ret = InvalidField(arg.text))

-----------------------------------------------------------------------------
(* Job lines                                                               *)

\* A well-formed field: elements of the grammar with lo not above hi and
\* a step of at least 1 (the fields of SpecJobLine have no ',').
WellFormedField(t) ==
    /\ IsElement(t)
    /\ Count(t, "/") = 1 => PositiveStep(t)
    /\ LET b == IF Count(t, "/") = 1 THEN BaseText(t) ELSE t
       IN IsLoHi(b) => Lo(b) <= Hi(b)

\* C14: a job line with fewer than five time fields, each well-formed,
\* fails with the Invalid job syntax error and yields no schedule.
C14_ShortLineInvalidJob ==
    (/\ pc = "done"
     /\ Len(arg.fields) < 5
     /\ \A k \in 1..Len(arg.fields) : WellFormedField(arg.fields[k]))
    => ret = InvalidJob(arg.line)

\* C15: in every parsed job dom_specified is false exactly when the text
\* of the third field is '*', and dow_specified is false exactly when the
\* text of the fifth field is '*'.
C15_SpecifiedFlags ==
    (pc = "done" /\ ret.kind = "Job") =>
        /\ ret.dom_specified <=> (arg.fields[3] # <<"*">>)
        /\ ret.dow_specified <=> (arg.fields[5] # <<"*">>)

\* C15 witness: '*/1' and '1-7' denote the values of '*' and set both flags.
C15_Witness ==
    /\ pc = "done"
    /\ ret.kind = "Job"
    /\ arg.fields[3] = <<"*", "/", "1">>
    /\ arg.fields[5] = <<"1", "-", "7">>
    /\ ret.doms = Set_init(<<"*">>, DOM_RANGE)
    /\ ret.dows = Set_init(<<"*">>, DOW_RANGE)
    /\ ret.dom_specified
    /\ ret.dow_specified

-----------------------------------------------------------------------------
(* Crontab files                                                           *)

Blank(c) == c \in {" ", "\t", "\n", "\r"}

\* The line without its leading and trailing blanks.
Trimmed(l) ==
    IF \A k \in 1..Len(l) : Blank(l[k]) THEN <<>>
    ELSE LET first == CHOOSE i \in 1..Len(l) :
                          ~Blank(l[i]) /\ \A k \in 1..(i - 1) : Blank(l[k])
             last == CHOOSE i \in 1..Len(l) :
                          ~Blank(l[i]) /\ \A k \in (i + 1)..Len(l) : Blank(l[k])
         IN SubSeq(l, first, last)

WordChars ==
    {"0", "1", "2", "3", "4", "5", "6", "7", "8", "9", "_"} \cup Letters

\* A word, optional blanks, then '=' at the start of the text.
IsAssignment(t) ==
    \E w \in 1..Len(t), e \in 2..Len(t) :
        /\ w < e
        /\ \A k \in 1..w : t[k] \in WordChars
        /\ \A k \in (w + 1)..(e - 1) : Blank(t[k])
        /\ t[e] = "="

\* A line that is not a job line.
Skipped(l) ==
    LET t == Trimmed(l) IN
    t = <<>> \/ t[1] = "#" \/ IsAssignment(t)

\* The job lines among the first n lines of the file, trimmed, in order.
RECURSIVE JobLinesOf(_, _)
JobLinesOf(file, n) ==
    IF n = 0 THEN <<>>
    ELSE IF Skipped(file[n]) THEN JobLinesOf(file, n - 1)
    ELSE Append(JobLinesOf(file, n - 1), Trimmed(file[n]))

\* C16: construction keeps exactly the job lines, in input order: after
\* any number of lines there is one entry of jobs per non-skipped line
\* read, the k-th entry being the job of the k-th non-skipped line; a
\* skipped line is never parsed, so never the line of an error, and the
\* constructed Crontab holds the jobs of all non-skipped lines.
C16_KeepsJobLines ==
    /\ pc \in {"lines", "done"} =>
          LET kept == JobLinesOf(arg.file, loop.lineno) IN
          /\ Len(loop.jobs) = Len(kept)
          /\ \A k \in 1..Len(kept) : loop.jobs[k] = Job_init(kept[k])
    /\ pc = "raised" => ~Skipped(arg.file[loop.lineno])
    /\ pc = "done" =>
          /\ loop.lineno = Len(arg.file)
          /\ ret.jobs = loop.jobs

\* C16 witness: a Crontab constructed from a file with a comment, an
\* assignment with blanks, and two job lines, one of them holding an '='.
C16_Witness ==
    /\ pc = "done"
    /\ Len(arg.file) = 3
    /\ \E k \in 1..3 : Trimmed(arg.file[k]) = <<"V", " ", "=", " ", "3">>
    /\ \E k \in 1..3 : \E i \in 1..Len(arg.file[k]) :
          ~Skipped(arg.file[k]) /\ arg.file[k][i] = "="
    /\ Len(ret.jobs) = 2

\* The first line of the file that is a job line and does not parse.
Offending(file) ==
    CHOOSE k \in 1..Len(file) :
        /\ ~Skipped(file[k]) /\ Job_init(Trimmed(file[k])).kind # "Job"
        /\ \A i \in 1..(k - 1) :
              Skipped(file[i]) \/ Job_init(Trimmed(file[i])).kind = "Job"

\* C17: when a job line fails to parse, construction stops at that line
\* and the error is a syntax error whose lineno is the 1-based position
\* of that line, skipped lines counted.
C17_ErrorCarriesLineno ==
    pc = "raised" =>
        /\ loop.lineno = Offending(arg.file)
        /\ ret = None
        /\ result.kind = "CronSyntaxError"
        /\ result.lineno = Offending(arg.file)

-----------------------------------------------------------------------------
(* Next runs                                                               *)

\* The pairs of the first n jobs, each computed alone; a job without a
\* valid time has no pair.
RECURSIVE PairsAlone(_, _, _)
PairsAlone(jobs, n, t) ==
    IF n = 0 THEN <<>>
    ELSE LET v == Job_next_value(jobs[n], t) IN
         IF v.kind = "datetime"
         THEN Append(PairsAlone(jobs, n - 1, t), <<jobs[n].job, v.dt>>)
         ELSE PairsAlone(jobs, n - 1, t)

IsPrefix(a, b) == Len(a) <= Len(b) /\ a = SubSeq(b, 1, Len(a))

\* C18: the pairs produced are those of the jobs computed alone, in input
\* order, and a job that fails with the no-valid-time error does not keep
\* the pairs of the jobs after it from being produced: once the sequence
\* has ended it holds the pair of every job that has one.
C18_JobsIndependent ==
    /\ IsPrefix(ret, PairsAlone(arg.jobs, Len(arg.jobs), now))
    /\ pc = "stopped" => ret = PairsAlone(arg.jobs, Len(arg.jobs), now)

\* C19: every timestamp returned by Job.next_value has all its sub-minute
\* components at zero, whatever those of now are.
C19_TruncatedToMinute ==
    Returned => (result.dt.second = 0 /\ result.dt.microsecond = 0)

-----------------------------------------------------------------------------
(* The day-of-week path                                                    *)

\* C21: in the DOW path the day delta is forward-only: it is never
\* negative, and when dows.next_value reports a carry the delta applied
\* is between 1 and 7 days, never 0.
C21_DeltaForward ==
    pc \in {"same", "next"} =>
        /\ loop.delta >= 0
        /\ (pc = "same" /\ loop.dow_carry) => loop.delta \in 1..7

\* The DOW path of the call: find_dow_month_year, then the restart of the
\* time of day.
DowPath ==
    LET a == find_minute_hour(job, [now EXCEPT !.second = 0], TRUE)
        f == find_dow_month_year(job, a.dt, a.carry)
    IN IF a.kind # "found" THEN a
       ELSE IF f.kind # "found" THEN f
       ELSE Restart(job, f)

\* C22: when only the day of week is restricted, next_value returns the
\* DOW path's timestamp whenever that path yields one; a failure of the
\* DOM path does not make the call fail.
C22_DowPathAlone ==
    (/\ pc = "done"
     /\ job.dow_specified
     /\ ~job.dom_specified
     /\ DowPath.kind = "datetime")
    => result = DowPath

\* The first date on or after d whose weekday (1 Monday .. 7 Sunday) is a
\* value of the Set s.
FirstWeekdayFrom(d, s) ==
    LET n == CHOOSE i \in 0..6 :
                 /\ InSet(s, isoweekday(AddDays(d, i)))
                 /\ \A k \in 0..(i - 1) : ~InSet(s, isoweekday(AddDays(d, k)))
    IN AddDays(d, n)

\* The first day of the first month after that of d that is a value of
\* the month Set s.
FirstOfNextMonth(d, s) ==
    LET MonthAt(i) == ((d.month - 1 + i) % 12) + 1
        YearAt(i) == d.year + ((d.month - 1 + i) \div 12)
        n == CHOOSE i \in 1..12 :
                 /\ InSet(s, MonthAt(i))
                 /\ \A k \in 1..(i - 1) : ~InSet(s, MonthAt(k))
    IN [d EXCEPT !.year = YearAt(n), !.month = MonthAt(n), !.day = 1]

\* The date the DOW path is to pick from the start date d.
NearestWeekday(j, d) ==
    LET e == FirstWeekdayFrom(d, j.dows) IN
    IF e.month = d.month /\ InSet(j.months, d.month) THEN e
    ELSE FirstWeekdayFrom(FirstOfNextMonth(d, j.months), j.dows)

\* C23: with one weekday numbering (1..7, Sunday = 7) for the current
\* weekday and the field values, the date the DOW path picks from a start
\* date (the hour not having carried) is the first date on or after it,
\* or on or after the 1st of the next matching month, whose weekday is in
\* the Set, Sundays included.
C23_NearestWeekday ==
    (pc \in {"same", "next"} /\ ~arg.hour_carry) =>
        ret.dt = NearestWeekday(job, arg.dt)

-----------------------------------------------------------------------------
(* Failure kinds of a job line                                             *)

\* C24: parsing a job line either returns a schedule with five Sets and a
\* command, or raises the syntax error Invalid Field or Invalid job; no
\* other error escapes.
C24_TwoFailureKinds ==
    pc = "done" =>
        \/ /\ ret.kind = "Job"
           /\ \A f \in {ret.mins, ret.hours, ret.doms, ret.months, ret.dows} :
                 f.kind = "Set"
           /\ Len(ret.job) >= 1
        \/ /\ ret.kind = "CronSyntaxError"
           /\ ret.msg \in {"Invalid Field", "Invalid job"}

====
